---------------------------- MODULE Spec2Model ----------------------------
(***************************************************************************)
(* Model of the star-graph route planner: the graph store (graphBase and   *)
(* StarGraph), the agent (Donkey), the step simulator (RouteSimulator) and *)
(* the two searches (dijkstra_max_exploration, OptimalRouteFinder).        *)
(*                                                                         *)
(* Python values are modelled as follows.                                  *)
(*   dict      a sequence of <<key, value>> pairs in insertion order       *)
(*             (the outer adjacency_list, only read by key, is a function) *)
(*   list      a sequence                                                  *)
(*   None / x  the sequences << >> and <<x>>                               *)
(*   float     an exact rational [n |-> numerator, d |-> denominator > 0]  *)
(*   raise     a record field exc naming the exception, "" when none       *)
(***************************************************************************)
EXTENDS Integers, Sequences, FiniteSets, TLC

VARIABLES
    adjacency_list,    \* graphBase.adjacency_list: vertex -> dict neighbour -> distance
    has_blocked_edges, \* hasattr(star_graph, "blocked_edges")
    blocked_edges,     \* StarGraph.blocked_edges: set of sorted pairs
    star_map,          \* StarGraph.star_map: star id -> star data
    research_config,   \* RouteSimulator.research_config: star id -> parameters
    donkey,            \* the Donkey instance held by the caller
    start_star_id,     \* the start star the user selected
    me_prev,           \* outcome of the dijkstra_max_exploration call before the last
    me_last,           \* outcome of the last dijkstra_max_exploration call
    orf_last,          \* outcome of the last calculate_optimal_route call
    last_op,           \* the last operation applied and what it returned
    nops,              \* operations applied so far
    vertex_list,       \* Graph.vertex_list: id -> Vertex.adjacent (dict id -> weight)
    num_vertex,        \* Graph.num_vertex
    id_type,           \* the Python type of the ids given to Graph: "int" or "str"
    dj_last,           \* outcome of the last dijkstra_simple call
    sim,               \* SimulationController: its fields and its buttons' states
    after_queue,       \* callbacks of _next_step scheduled with after() and not yet run
    last_press,        \* the last thing the user did to the replay
    store,             \* the objects of a search: address -> Donkey, list or dict
    search             \* calculate_optimal_route step by step: its local variables

vars == <<adjacency_list, has_blocked_edges, blocked_edges, star_map,
          research_config, donkey, start_star_id, me_prev, me_last, orf_last,
          last_op, nops, vertex_list, num_vertex, id_type, dj_last,
          sim, after_queue, last_press, store, search>>

---------------------------------------------------------------------------
(* Bounds of the model and the input sets the operations draw from.        *)

MaxOps == 3
MaxDonkeyOps == 3
MaxCalls == 2

StarIds == {1, 2, 3}
StartChoices == {1, 2, 3, 4}
Distances == {40, 50, 90}

---------------------------------------------------------------------------
(* Exact rational arithmetic standing for Python's float arithmetic.       *)

Abs(x) == IF x < 0 THEN -x ELSE x

RECURSIVE GCD(_, _)
GCD(a, b) == IF b = 0 THEN a ELSE GCD(b, a % b)

Rat(n, d) ==
    LET s == IF d < 0 THEN -1 ELSE 1
        g == GCD(Abs(n), Abs(d))
    IN  [n |-> (s * n) \div g, d |-> (s * d) \div g]

R(i) == [n |-> i, d |-> 1]
RAdd(x, y) == Rat(x.n * y.d + y.n * x.d, x.d * y.d)
RSub(x, y) == Rat(x.n * y.d - y.n * x.d, x.d * y.d)
RMul(x, y) == Rat(x.n * y.n, x.d * y.d)
RDiv(x, y) == Rat(x.n * y.d, x.d * y.n)
RLt(x, y) == x.n * y.d < y.n * x.d
RLe(x, y) == x.n * y.d <= y.n * x.d
RMin(x, y) == IF RLe(x, y) THEN x ELSE y

---------------------------------------------------------------------------
(* Python dict as an insertion-ordered sequence of <<key, value>> pairs.   *)

DictKeys(dct) == {dct[i][1] : i \in DOMAIN dct}

DictHas(dct, k) == k \in DictKeys(dct)

DictGet(dct, k) ==
    IF DictHas(dct, k)
    THEN <<dct[CHOOSE i \in DOMAIN dct : dct[i][1] = k][2]>>
    ELSE << >>

DictSet(dct, k, v) ==
    IF DictHas(dct, k)
    THEN [i \in DOMAIN dct |-> IF dct[i][1] = k THEN <<k, v>> ELSE dct[i]]
    ELSE Append(dct, <<k, v>>)

---------------------------------------------------------------------------
(* graphBase                                                               *)

add_vertex(adj, star_id) ==
    IF star_id \in DOMAIN adj
    THEN adj
    ELSE [v \in DOMAIN adj \cup {star_id} |->
             IF v = star_id THEN << >> ELSE adj[v]]

add_edge_one_way(adj, from_star, to_star, distance) ==
    LET a1 == add_vertex(add_vertex(adj, from_star), to_star)
    IN  [a1 EXCEPT ![from_star] = DictSet(@, to_star, distance)]

add_edge(adj, from_star, to_star, distance) ==
    LET a1 == add_vertex(add_vertex(adj, from_star), to_star)
        a2 == [a1 EXCEPT ![from_star] = DictSet(@, to_star, distance)]
    IN  [a2 EXCEPT ![to_star] = DictSet(@, from_star, distance)]

get_neighbors(adj, star_id) ==
    IF star_id \in DOMAIN adj THEN adj[star_id] ELSE << >>

get_vertices(adj) == DOMAIN adj

---------------------------------------------------------------------------
(* StarGraph: blocking of edges and the neighbour queries.                 *)

UnsortedPair(a, b) == <<a, b>>

\* tuple(sorted([star_id1, star_id2]))
SortedPair(a, b) == IF a <= b THEN <<a, b>> ELSE <<b, a>>

\* _init_blocked_edges: the set exists after any call that needs it
init_blocked_edges(has, blocked) == IF has THEN blocked ELSE {}

set_edge_blocked(has, blocked, star_id1, star_id2, flag) ==
    LET cur == init_blocked_edges(has, blocked)
        edge == SortedPair(star_id1, star_id2)
    IN  IF flag THEN cur \cup {edge} ELSE cur \ {edge}

is_edge_blocked(has, blocked, star_id1, star_id2) ==
    SortedPair(star_id1, star_id2) \in init_blocked_edges(has, blocked)

\* the second definition of the method (lines 185-196) replaces the first
get_neighbors_with_distance(adj, has, blocked, star_id) ==
    LET nd == get_neighbors(adj, star_id)
    IN  SelectSeq(nd, LAMBDA p : ~is_edge_blocked(has, blocked, star_id, p[1]))

get_distance_between(adj, star_id1, star_id2) ==
    DictGet(get_neighbors(adj, star_id1), star_id2)

get_all_vertices(adj) == get_vertices(adj)

get_star(smap, star_id) ==
    IF star_id \in DOMAIN smap THEN <<smap[star_id]>> ELSE << >>

---------------------------------------------------------------------------
(* Donkey                                                                  *)

HealthNames == {"Excelente", "Buena", "Mala", "Moribundo", "Muerto"}

\* HEALTH_STATES[h]["energy_per_kg"]
energy_per_kg(h) ==
    CASE h = "Excelente" -> 5
      [] h = "Buena"     -> 3
      [] h = "Mala"      -> 2
      [] h = "Moribundo" -> 1
      [] h = "Muerto"    -> 0

NewDonkey(initial_energy, health_state, grass_kg, start_age, death_age) ==
    [ energy                  |-> initial_energy,
      health_state            |-> health_state,
      grass_kg                |-> grass_kg,
      start_age               |-> start_age,
      current_age             |-> start_age,
      death_age               |-> death_age,
      visited_stars           |-> << >>,
      total_distance_traveled |-> 0,
      grass_consumed          |-> << >>,
      research_time           |-> << >> ]

is_alive(d) == d.health_state # "Muerto" /\ d.current_age < d.death_age

get_remaining_life(d) ==
    IF d.death_age - d.current_age > 0 THEN d.death_age - d.current_age ELSE 0

can_eat(d) == RLt(d.energy, R(50))

EatNothing == [kg_eaten |-> R(0), energy_gained |-> R(0), time_spent |-> R(0)]

\* eat(star_time_to_eat, max_time_available); max_time_available is << >> for
\* None.  The division by an energy_per_kg of 0 raises before anything is
\* assigned.
eat(d, star_time_to_eat, max_time_available) ==
    IF ~can_eat(d) \/ RLe(d.grass_kg, R(0))
    THEN [d |-> d, ret |-> EatNothing, exc |-> ""]
    ELSE
      LET energy_needed == RSub(R(100), d.energy)
          epk == energy_per_kg(d.health_state)
      IN  IF epk = 0
          THEN [d |-> d, ret |-> EatNothing, exc |-> "ZeroDivisionError"]
          ELSE
            LET kg_needed == RDiv(energy_needed, R(epk))
                kg_first  == RMin(kg_needed, d.grass_kg)
                time_first == RMul(kg_first, star_time_to_eat)
                capped == /\ max_time_available # << >>
                          /\ RLt(max_time_available[1], time_first)
                time_needed == IF capped THEN max_time_available[1] ELSE time_first
                kg_to_eat == IF capped
                             THEN RDiv(max_time_available[1], star_time_to_eat)
                             ELSE kg_first
                energy_gained == RMul(kg_to_eat, R(epk))
            IN  [d |-> [d EXCEPT !.energy = RMin(R(100), RAdd(d.energy, energy_gained)),
                                 !.grass_kg = RSub(d.grass_kg, kg_to_eat)],
                 ret |-> [kg_eaten |-> kg_to_eat, energy_gained |-> energy_gained,
                          time_spent |-> time_needed],
                 exc |-> ""]

travel_strict(d, distance_light_years) ==
    LET d1 == [d EXCEPT !.current_age = @ + distance_light_years,
                        !.total_distance_traveled = @ + distance_light_years]
    IN  IF d1.current_age > d1.death_age
        THEN [d |-> [d1 EXCEPT !.health_state = "Muerto"], ret |-> FALSE]
        ELSE [d |-> d1, ret |-> TRUE]

travel(d, distance_light_years) ==
    LET d1 == [d EXCEPT !.current_age = @ + distance_light_years,
                        !.total_distance_traveled = @ + distance_light_years]
    IN  IF d1.current_age >= d1.death_age
        THEN [d |-> [d1 EXCEPT !.health_state = "Muerto"], ret |-> FALSE]
        ELSE [d |-> d1, ret |-> TRUE]

update_health_state(d) ==
    [d EXCEPT !.health_state =
        IF RLe(R(75), d.energy) THEN "Excelente"
        ELSE IF RLe(R(50), d.energy) THEN "Buena"
        ELSE IF RLe(R(25), d.energy) THEN "Mala"
        ELSE IF RLt(R(0), d.energy) THEN "Moribundo"
        ELSE "Muerto"]

do_research_unclamped(d, time_spent, energy_cost_per_time) ==
    LET d1 == [d EXCEPT !.energy = RSub(@, RMul(time_spent, energy_cost_per_time))]
    IN  IF RLe(d1.energy, R(0))
        THEN [d |-> [d1 EXCEPT !.health_state = "Muerto"], ret |-> FALSE]
        ELSE [d |-> update_health_state(d1), ret |-> TRUE]

do_research_strict(d, time_spent, energy_cost_per_time) ==
    LET d1 == [d EXCEPT !.energy = RSub(@, RMul(time_spent, energy_cost_per_time))]
    IN  IF RLt(d1.energy, R(0))
        THEN [d |-> [d1 EXCEPT !.energy = R(0), !.health_state = "Muerto"],
              ret |-> FALSE]
        ELSE [d |-> update_health_state(d1), ret |-> TRUE]

do_research(d, time_spent, energy_cost_per_time) ==
    LET d1 == [d EXCEPT !.energy = RSub(@, RMul(time_spent, energy_cost_per_time))]
    IN  IF RLe(d1.energy, R(0))
        THEN [d |-> [d1 EXCEPT !.energy = R(0), !.health_state = "Muerto"],
              ret |-> FALSE]
        ELSE [d |-> update_health_state(d1), ret |-> TRUE]

\* the parameters Donkey.do_research declares besides self
DoResearchParams == {"time_spent", "energy_cost_per_time"}

visit_star(d, star_id) ==
    IF \E i \in DOMAIN d.visited_stars : d.visited_stars[i] = star_id
    THEN d
    ELSE [d EXCEPT !.visited_stars = Append(@, star_id)]

has_visited(d, star_id) ==
    \E i \in DOMAIN d.visited_stars : d.visited_stars[i] = star_id

record_grass_consumption(d, star_id, kg_consumed) ==
    LET old == IF DictHas(d.grass_consumed, star_id)
               THEN DictGet(d.grass_consumed, star_id)[1] ELSE R(0)
    IN  [d EXCEPT !.grass_consumed = DictSet(@, star_id, RAdd(old, kg_consumed))]

record_research_time(d, star_id, time_spent) ==
    LET old == IF DictHas(d.research_time, star_id)
               THEN DictGet(d.research_time, star_id)[1] ELSE R(0)
    IN  [d EXCEPT !.research_time = DictSet(@, star_id, RAdd(old, time_spent))]

use_hypergiant_portal_add_50(d) ==
    [d EXCEPT !.energy = RMin(R(100), RAdd(@, R(50))),
              !.grass_kg = RMul(@, R(2))]

\* energy * 1.5 clamped to 100, grass doubled; the method returns None
use_hypergiant_portal(d) ==
    [d EXCEPT !.energy = RMin(R(100), RMul(@, Rat(3, 2))),
              !.grass_kg = RMul(@, R(2))]

get_report(d) ==
    [ energy |-> d.energy, health_state |-> d.health_state,
      grass_kg |-> d.grass_kg, current_age |-> d.current_age,
      death_age |-> d.death_age, remaining_life |-> get_remaining_life(d),
      visited_stars |-> d.visited_stars,
      total_stars_visited |-> Len(d.visited_stars),
      total_distance_traveled |-> d.total_distance_traveled,
      grass_consumed |-> d.grass_consumed, research_time |-> d.research_time,
      is_alive |-> is_alive(d) ]

---------------------------------------------------------------------------
(* Values of the variables an operation group does not use.                *)

EmptyMap == [v \in {} |-> << >>]
NoCall == [called |-> FALSE]
IdleDonkey == NewDonkey(R(100), "Excelente", R(300), 12, 3567)

GraphIdle ==
    /\ adjacency_list = EmptyMap
    /\ has_blocked_edges = FALSE
    /\ blocked_edges = {}

SearchIdle ==
    /\ star_map = EmptyMap
    /\ research_config = EmptyMap
    /\ start_star_id = 1
    /\ me_prev = NoCall
    /\ me_last = NoCall
    /\ orf_last = NoCall

SearchVars == <<star_map, research_config, start_star_id, me_prev, me_last, orf_last>>
GraphVars == <<adjacency_list, has_blocked_edges, blocked_edges>>

PathIdle ==
    /\ vertex_list = EmptyMap
    /\ num_vertex = 0
    /\ id_type = "int"
    /\ dj_last = NoCall

PathVars == <<vertex_list, num_vertex, id_type, dj_last>>

\* SimulationController.__init__ and _create_panel: nothing loaded, every
\* button disabled, no callback scheduled
ReplayIdle ==
    /\ sim = [ num_steps |-> 0, current_step_index |-> -1, is_playing |-> FALSE,
               start_button |-> FALSE, next_button |-> FALSE,
               play_button |-> FALSE, stop_button |-> FALSE ]
    /\ after_queue = 0
    /\ last_press = "none"

ReplayVars == <<sim, after_queue, last_press>>

\* no search under way, no object allocated
CloneIdle ==
    /\ store = << >>
    /\ search = [pc |-> "idle"]

CloneVars == <<store, search>>

---------------------------------------------------------------------------
(* The graph store driven by its callers: the loader's add_vertex and      *)
(* add_edge, the path control panel's set_edge_blocked and toggle.         *)

Init ==
    /\ GraphIdle
    /\ SearchIdle
    /\ PathIdle
    /\ ReplayIdle
    /\ CloneIdle
    /\ donkey = IdleDonkey
    /\ last_op = [op |-> "init"]
    /\ nops = 0

AddVertex(star_id) ==
    /\ nops < MaxOps
    /\ adjacency_list' = add_vertex(adjacency_list, star_id)
    /\ last_op' = [op |-> "add_vertex", a |-> star_id]
    /\ nops' = nops + 1
    /\ UNCHANGED <<has_blocked_edges, blocked_edges, donkey, SearchVars, PathVars, ReplayVars, CloneVars>>

AddEdge(from_star, to_star, distance) ==
    /\ nops < MaxOps
    /\ adjacency_list' = add_edge(adjacency_list, from_star, to_star, distance)
    /\ last_op' = [op |-> "add_edge", a |-> from_star, b |-> to_star, w |-> distance]
    /\ nops' = nops + 1
    /\ UNCHANGED <<has_blocked_edges, blocked_edges, donkey, SearchVars, PathVars, ReplayVars, CloneVars>>

SetEdgeBlocked(star_id1, star_id2, flag) ==
    /\ nops < MaxOps
    /\ blocked_edges' = set_edge_blocked(has_blocked_edges, blocked_edges,
                                         star_id1, star_id2, flag)
    /\ has_blocked_edges' = TRUE
    /\ last_op' = [op |-> "set_edge_blocked", a |-> star_id1, b |-> star_id2,
                   flag |-> flag]
    /\ nops' = nops + 1
    /\ UNCHANGED <<adjacency_list, donkey, SearchVars, PathVars, ReplayVars, CloneVars>>

\* get_all_edges: every pair a < b of the adjacency list, once, with its
\* distance and whether it is blocked (the selector's entries)
get_all_edges(adj, has, blocked) ==
    UNION { { <<a, adj[a][i][1], adj[a][i][2],
                is_edge_blocked(has, blocked, a, adj[a][i][1])>> :
              i \in {j \in DOMAIN adj[a] : a < adj[a][j][1]} } :
            a \in DOMAIN adj }

\* PathControlPanel.toggle_edge_block on the selected entry
ToggleEdgeBlock(edge) ==
    /\ nops < MaxOps
    /\ LET is_blocked == is_edge_blocked(has_blocked_edges, blocked_edges,
                                         edge[1], edge[2])
       IN  /\ blocked_edges' = set_edge_blocked(has_blocked_edges, blocked_edges,
                                                edge[1], edge[2], ~is_blocked)
           /\ last_op' = [op |-> "toggle_edge_block", a |-> edge[1], b |-> edge[2],
                          flag |-> ~is_blocked]
    /\ has_blocked_edges' = TRUE
    /\ nops' = nops + 1
    /\ UNCHANGED <<adjacency_list, donkey, SearchVars, PathVars, ReplayVars, CloneVars>>

Next ==
    \/ \E star_id \in StarIds : AddVertex(star_id)
    \/ \E a \in StarIds, b \in StarIds, w \in Distances : AddEdge(a, b, w)
    \/ \E a \in StarIds, b \in StarIds, flag \in BOOLEAN : SetEdgeBlocked(a, b, flag)
    \/ \E edge \in get_all_edges(adjacency_list, has_blocked_edges, blocked_edges) :
          ToggleEdgeBlock(edge)

Spec == Init /\ [][Next]_vars

---------------------------------------------------------------------------
(* The agent driven one operation at a time.                               *)

InitialDonkeys ==
    { NewDonkey(R(e), h, R(g), 10, 130) :
        e \in {0, 10, 40, 49, 50, 100}, h \in HealthNames, g \in {0, 10} }

DonkeyInit ==
    /\ GraphIdle
    /\ SearchIdle
    /\ PathIdle
    /\ ReplayIdle
    /\ CloneIdle
    /\ donkey \in InitialDonkeys
    /\ last_op = [op |-> "init"]
    /\ nops = 0

DonkeyStep(op, d) ==
    /\ nops < MaxDonkeyOps
    /\ donkey' = d
    /\ last_op' = op
    /\ nops' = nops + 1
    /\ UNCHANGED <<GraphVars, SearchVars, PathVars, ReplayVars, CloneVars>>

DonkeyEat(star_time_to_eat, max_time_available) ==
    LET r == eat(donkey, star_time_to_eat, max_time_available)
    IN  DonkeyStep([op |-> "eat", ret |-> r.ret, exc |-> r.exc,
                    star_time_to_eat |-> star_time_to_eat,
                    max_time_available |-> max_time_available], r.d)

DonkeyTravel(distance) ==
    LET r == travel(donkey, distance)
    IN  DonkeyStep([op |-> "travel", ret |-> r.ret, distance |-> distance], r.d)

DonkeyResearch(time_spent, energy_cost_per_time) ==
    LET r == do_research(donkey, time_spent, energy_cost_per_time)
    IN  DonkeyStep([op |-> "do_research", ret |-> r.ret, time_spent |-> time_spent,
                    energy_cost_per_time |-> energy_cost_per_time], r.d)

DonkeyPortal ==
    DonkeyStep([op |-> "use_hypergiant_portal"], use_hypergiant_portal(donkey))

DonkeyVisit(star_id) ==
    DonkeyStep([op |-> "visit_star", a |-> star_id], visit_star(donkey, star_id))

DonkeyRecordGrass(star_id, kg) ==
    DonkeyStep([op |-> "record_grass_consumption", a |-> star_id],
               record_grass_consumption(donkey, star_id, kg))

DonkeyRecordResearch(star_id, time_spent) ==
    DonkeyStep([op |-> "record_research_time", a |-> star_id],
               record_research_time(donkey, star_id, time_spent))

DonkeyNext ==
    \/ \E t \in {R(1), R(2)}, m \in {<< >>, <<R(5)>>} : DonkeyEat(t, m)
    \/ \E dist \in Distances : DonkeyTravel(dist)
    \/ \E t \in {R(1), R(5)}, c \in {R(0), R(1), R(20)} : DonkeyResearch(t, c)
    \/ DonkeyPortal
    \/ \E star_id \in {1, 2} : DonkeyVisit(star_id)
    \/ DonkeyRecordGrass(1, R(1))
    \/ DonkeyRecordResearch(1, R(5))

SpecDonkey == DonkeyInit /\ [][DonkeyNext]_vars

---------------------------------------------------------------------------
(* RouteSimulator.simulate_star_visit.  The context g holds what the       *)
(* simulator reads: [adj, has, blocked, smap, rconfig].                    *)

donkey_state(d) ==
    [ energy |-> d.energy, health_state |-> d.health_state,
      grass_kg |-> d.grass_kg, current_age |-> d.current_age,
      death_age |-> d.death_age, remaining_life |-> get_remaining_life(d),
      is_alive |-> is_alive(d) ]

EmptyVisitResult(next_star_id) ==
    [ success |-> FALSE, star_id |-> next_star_id, travel_result |-> << >>,
      eat_result |-> << >>, research_result |-> << >>,
      hypergiant_bonus |-> << >>, donkey_state |-> << >>, death_reason |-> << >> ]

\* a return of result with a death reason and the agent's state saved
VisitStopped(d, result, reason) ==
    [ d |-> d, exc |-> "",
      result |-> [result EXCEPT !.death_reason = <<reason>>,
                                !.donkey_state = <<donkey_state(d)>>] ]

VisitRaised(d, result, exc) == [d |-> d, exc |-> exc, result |-> result]

DefaultResearchParams ==
    [ research_time |-> R(5), energy_cost_per_time |-> R(1),
      health_effect |-> R(0), life_effect |-> R(0) ]

\* the keyword arguments simulate_star_visit passes to donkey.do_research
ResearchCallKeywords ==
    {"time_spent", "energy_cost_per_time", "health_effect", "life_effect"}

\* whether Donkey.do_research returns a dict (it returns True or False)
DoResearchReturnsDict == FALSE

\* lines 194-206: the final state is saved; success is is_alive()
visit_finish(d, result) ==
    [ d |-> d, exc |-> "",
      result |-> [result EXCEPT !.donkey_state = <<donkey_state(d)>>,
                                !.success = is_alive(d)] ]

\* lines 174-192: a failed research stops the visit; a hypergiant gives its
\* bonus (use_hypergiant_portal returns None, so hypergiant_bonus stays None)
visit_after_research(d, star_data, result, research_result) ==
    IF ~research_result.success
    THEN VisitStopped(d, result, "El burro murió durante la investigación")
    ELSE visit_finish(IF star_data.hypergiant # << >> /\ star_data.hypergiant[1]
                      THEN use_hypergiant_portal(d) ELSE d,
                      result)

\* lines 169-175: the result of the call is stored, the time recorded, and
\* research_result["success"] read
visit_research_done(d, r, params, star_data, next_star_id, result) ==
    IF ~DoResearchReturnsDict
    THEN VisitRaised(record_research_time(r.d, next_star_id, params.research_time),
                     [result EXCEPT !.research_result = <<r.ret>>], "TypeError")
    ELSE visit_after_research(
             record_research_time(r.d, next_star_id, params.research_time),
             star_data, [result EXCEPT !.research_result = <<r.ret>>],
             [success |-> r.ret])

\* lines 161-167: the call of donkey.do_research with four keyword arguments
visit_research_call(d, params, star_data, next_star_id, result) ==
    IF ~(ResearchCallKeywords \subseteq DoResearchParams)
    THEN VisitRaised(d, result, "TypeError")
    ELSE visit_research_done(
             d, do_research(d, params.research_time, params.energy_cost_per_time),
             params, star_data, next_star_id, result)

\* lines 153-159: the parameters configured for the star, or the defaults
visit_research(g, d, star_data, next_star_id, result) ==
    visit_research_call(d,
                        IF next_star_id \in DOMAIN g.rconfig
                        THEN g.rconfig[next_star_id] ELSE DefaultResearchParams,
                        star_data, next_star_id, result)

\* lines 146-151: the food eaten is recorded, then the research step
visit_after_eat(g, e, star_data, next_star_id, result) ==
    IF e.exc # ""
    THEN VisitRaised(e.d, result, e.exc)
    ELSE visit_research(g,
                        IF RLt(R(0), e.ret.kg_eaten)
                        THEN record_grass_consumption(e.d, next_star_id, e.ret.kg_eaten)
                        ELSE e.d,
                        star_data, next_star_id,
                        [result EXCEPT !.eat_result = <<e.ret>>])

\* lines 119-144: look the star up, eat when the energy is below 50
visit_star_data(g, d, star_data, next_star_id, result) ==
    IF star_data = << >>
    THEN VisitStopped(d, result, "Estrella no encontrada en el mapa")
    ELSE visit_after_eat(g,
                         IF can_eat(d)
                         THEN eat(d, IF star_data[1].timeToEat # << >>
                                     THEN star_data[1].timeToEat[1] ELSE R(1),
                                  <<R(5)>>)
                         ELSE [d |-> d, ret |-> EatNothing, exc |-> ""],
                         star_data[1], next_star_id, result)

\* lines 116-117: the visit is recorded
visit_at_star(g, d, next_star_id, result) ==
    visit_star_data(g, visit_star(d, next_star_id), get_star(g.smap, next_star_id),
                    next_star_id, result)

\* lines 95-114: the travel and its outcome
visit_after_travel(g, t, distance, next_star_id, result) ==
    IF ~t.ret
    THEN VisitStopped(t.d, [result EXCEPT !.travel_result =
                               <<[distance |-> distance, success |-> FALSE,
                                  new_age |-> t.d.current_age]>>],
                      "El burro murió de anciano")
    ELSE visit_at_star(g, t.d, next_star_id,
                       [result EXCEPT !.travel_result =
                           <<[distance |-> distance, success |-> TRUE,
                              new_age |-> t.d.current_age]>>])

\* lines 78-92: the distance of the edge travelled
visit_travel(g, d, distance, next_star_id, result) ==
    IF distance = << >>
    THEN VisitStopped(d, result, "No hay conexión entre estrellas")
    ELSE visit_after_travel(g, travel(d, distance[1]), distance[1],
                            next_star_id, result)

\* current_star_id is << >> for None.  Returns [d, exc, result]: the agent as
\* the visit left it, the exception that left the call, the result dict.
simulate_star_visit(g, d, current_star_id, next_star_id) ==
    IF current_star_id = << >>
    THEN visit_at_star(g, d, next_star_id, EmptyVisitResult(next_star_id))
    ELSE visit_travel(g, d,
                      get_distance_between(g.adj, current_star_id[1], next_star_id),
                      next_star_id, EmptyVisitResult(next_star_id))

---------------------------------------------------------------------------
(* OptimalRouteFinder                                                      *)

MaxIterationsOptimal == 10000

InSeq(x, seq) == \E i \in DOMAIN seq : seq[i] = x

\* _clone_donkey: a new Donkey with the same field values, lists and dicts copied
clone_donkey(d) ==
    [ NewDonkey(d.energy, d.health_state, d.grass_kg, d.start_age, d.death_age)
        EXCEPT !.current_age = d.current_age,
               !.visited_stars = d.visited_stars,
               !.total_distance_traveled = d.total_distance_traveled,
               !.grass_consumed = d.grass_consumed,
               !.research_time = d.research_time ]

\* the order of the heap's tuples; (current_star, num_visited) is unique
\* among pushed entries, so the comparison never reaches the path
OrfBefore(x, y) ==
    \/ RLt(x.priority, y.priority)
    \/ /\ x.priority = y.priority
       /\ \/ x.num_visited < y.num_visited
          \/ /\ x.num_visited = y.num_visited
             /\ \/ RLt(x.energy_spent, y.energy_spent)
                \/ /\ x.energy_spent = y.energy_spent
                   /\ x.current_star < y.current_star

\* heapq.heappop: the smallest entry
OrfPop(queue) == CHOOSE x \in queue : \A y \in queue \ {x} : OrfBefore(x, y)

\* line 138: a visit that did not succeed is not continued
VisitDiscarded(visit_result) == ~visit_result.success

\* lines 141-172: the entry pushed for a neighbour whose visit v succeeded
OrfEntry(cur, neighbor_id, v, new_energy_spent) ==
    [ priority |-> RAdd(R(-((cur.num_visited + 1) * 1000)), new_energy_spent),
      num_visited |-> cur.num_visited + 1,
      energy_spent |-> new_energy_spent,
      current_star |-> neighbor_id,
      path |-> Append(cur.path, neighbor_id),
      donkey |-> v.d,
      steps |-> Append(cur.steps, v.result) ]

\* lines 126-172: the neighbours nbrs[i..] of the popped entry cur, in order.
\* Returns [queue, visited_states, exc]; a raise leaves the loop at once.
RECURSIVE OrfNeighbors(_, _, _, _, _, _)
RECURSIVE OrfVisited(_, _, _, _, _, _, _)

\* lines 137-172: what is done with the visit v of neighbour nbrs[i]
OrfVisited(g, cur, nbrs, i, queue, visited_states, v) ==
    IF v.exc # ""
    THEN [queue |-> queue, visited_states |-> visited_states, exc |-> v.exc]
    ELSE IF \/ VisitDiscarded(v.result)
            \/ <<nbrs[i][1], cur.num_visited + 1>> \in visited_states
    THEN OrfNeighbors(g, cur, nbrs, i + 1, queue, visited_states)
    ELSE OrfNeighbors(g, cur, nbrs, i + 1,
             queue \cup {OrfEntry(cur, nbrs[i][1], v,
                             RAdd(cur.energy_spent,
                                  RSub(cur.donkey.energy, v.d.energy)))},
             visited_states \cup {<<nbrs[i][1], cur.num_visited + 1>>})

OrfNeighbors(g, cur, nbrs, i, queue, visited_states) ==
    IF i > Len(nbrs)
    THEN [queue |-> queue, visited_states |-> visited_states, exc |-> ""]
    ELSE IF InSeq(nbrs[i][1], cur.path)
    THEN OrfNeighbors(g, cur, nbrs, i + 1, queue, visited_states)
    ELSE OrfVisited(g, cur, nbrs, i, queue, visited_states,
                    simulate_star_visit(g, clone_donkey(cur.donkey),
                                        <<cur.current_star>>, nbrs[i][1]))

\* lines 104-121: the best result after popping cur
OrfBest(best, cur) ==
    IF \/ cur.num_visited > best.stars_visited
       \/ /\ cur.num_visited = best.stars_visited
          /\ RLt(cur.energy_spent, best.energy_spent)
    THEN [ stars_visited |-> cur.num_visited, route |-> cur.path,
           energy_spent |-> cur.energy_spent,
           donkey_state |-> get_report(cur.donkey),
           simulation_steps |-> cur.steps ]
    ELSE best

\* lines 99-172: the while loop.  Returns [exc, best, iteration, expanded,
\* queued]: expanded lists the entries popped so far, in order, as
\* [num_visited, energy_spent, path]; queued is what the queue still holds.
\* Each popped entry is listed with its star, its agent, its steps and rest,
\* the entries that were in the queue with it; queue is what the queue still
\* holds.  All are kept for the properties only; the code returns none.
\* what the properties read of a queue entry
OrfSeen(x) ==
    [ num_visited |-> x.num_visited, energy_spent |-> x.energy_spent,
      current_star |-> x.current_star, path |-> x.path ]

RECURSIVE OrfLoop(_, _, _, _, _, _)
RECURSIVE OrfExpanded(_, _, _, _, _)

\* the loop goes on with what the neighbours of the popped entry left
OrfExpanded(g, best, iteration, expanded, n) ==
    IF n.exc # ""
    THEN [exc |-> n.exc, best |-> best, iteration |-> iteration,
          expanded |-> expanded, queued |-> Cardinality(n.queue),
          queue |-> {OrfSeen(x) : x \in n.queue}]
    ELSE OrfLoop(g, n.queue, best, n.visited_states, iteration, expanded)

\* lines 100-124: an entry is popped and its neighbours are listed
OrfPopped(g, queue, best, visited_states, iteration, expanded, cur) ==
    OrfExpanded(g, OrfBest(best, cur), iteration,
                Append(expanded, [num_visited |-> cur.num_visited,
                                  energy_spent |-> cur.energy_spent,
                                  path |-> cur.path,
                                  current_star |-> cur.current_star,
                                  donkey |-> cur.donkey,
                                  steps |-> cur.steps,
                                  rest |-> {OrfSeen(x) : x \in queue \ {cur}}]),
                OrfNeighbors(g, cur,
                             get_neighbors_with_distance(g.adj, g.has, g.blocked,
                                                         cur.current_star),
                             1, queue \ {cur}, visited_states))

OrfLoop(g, queue, best, visited_states, iteration, expanded) ==
    IF queue = {} \/ iteration >= MaxIterationsOptimal
    THEN [exc |-> "", best |-> best, iteration |-> iteration,
          expanded |-> expanded, queued |-> Cardinality(queue),
          queue |-> {OrfSeen(x) : x \in queue}]
    ELSE OrfPopped(g, queue, best, visited_states, iteration + 1, expanded,
                   OrfPop(queue))

\* lines 174-183: the result returned, unless an exception left the loop
OrfReturn(run) ==
    IF run.exc # ""
    THEN [called |-> TRUE, exc |-> run.exc, touched |-> TRUE]
    ELSE [ called |-> TRUE, exc |-> "", touched |-> TRUE,
           iteration |-> run.iteration, expanded |-> run.expanded,
           queued |-> run.queued, queue |-> run.queue,
           result |-> [ success |-> TRUE, route |-> run.best.route,
                        simulation_steps |-> run.best.simulation_steps,
                        final_donkey_state |-> <<run.best.donkey_state>>,
                        total_stars_visited |-> run.best.stars_visited,
                        total_energy_spent |-> run.best.energy_spent,
                        message |-> <<"Ruta óptima encontrada: ", run.best.stars_visited,
                                     " estrellas visitadas">> ] ]

\* lines 67-97: the first entry, the first best result, the visited states
OrfStart(g, start, initial_donkey) ==
    OrfReturn(OrfLoop(g,
        { [ priority |-> R(-(1 * 1000) + 0), num_visited |-> 1,
            energy_spent |-> R(0), current_star |-> start,
            path |-> <<start>>, donkey |-> initial_donkey, steps |-> << >> ] },
        [ stars_visited |-> 1, route |-> <<start>>, energy_spent |-> R(0),
          donkey_state |-> get_report(initial_donkey),
          simulation_steps |-> << >> ],
        {<<start, 1>>}, 0, << >>))

\* Returns [called, exc, touched, result]: exc is the exception that left the
\* call ("" when it returned result); touched tells whether the call reached
\* get_neighbors_with_distance, which creates star_graph.blocked_edges.  A
\* call that ran the loop and returned also carries the loop's iteration,
\* expanded and queued.
calculate_optimal_route(g, start, d) ==
    IF start \notin get_all_vertices(g.adj)
    THEN [ called |-> TRUE, exc |-> "", touched |-> FALSE,
           result |-> [ success |-> FALSE, route |-> << >>,
                        simulation_steps |-> << >>, final_donkey_state |-> << >>,
                        total_stars_visited |-> 0, total_energy_spent |-> R(0),
                        message |-> <<"Estrella inicial ", start, " no existe en el grafo">> ] ]
    ELSE OrfStart(g, start, visit_star(clone_donkey(d), start))

---------------------------------------------------------------------------
(* dijkstra_max_exploration                                                *)

MaxIterationsExploration == 10000

\* whether the value get_neighbors_with_distance returns, a list, has the
\* method items() that line 98 calls on it
ListHasItems == FALSE

\* Python's order of two lists of integers
RECURSIVE SeqLess(_, _)
SeqLess(x, y) ==
    IF x = << >> THEN y # << >>
    ELSE IF y = << >> THEN FALSE
    ELSE IF Head(x) # Head(y) THEN Head(x) < Head(y)
    ELSE SeqLess(Tail(x), Tail(y))

\* the order of the heap's tuples (neg_count, age, star, route, visited)
MeBefore(x, y) ==
    \/ x.neg_count < y.neg_count
    \/ /\ x.neg_count = y.neg_count
       /\ \/ x.current_age < y.current_age
          \/ /\ x.current_age = y.current_age
             /\ \/ x.current_star < y.current_star
                \/ /\ x.current_star = y.current_star
                   /\ SeqLess(x.route, y.route)

MePop(heap) == CHOOSE x \in heap : \A y \in heap \ {x} : MeBefore(x, y)

\* lines 78-83: the distance of a route (a distance of 0 or None adds nothing)
RECURSIVE RouteDistance(_, _)
RouteDistance(adj, route) ==
    IF Len(route) < 2 THEN 0
    ELSE LET dist == get_distance_between(adj, route[1], route[2])
         IN  (IF dist # << >> THEN dist[1] ELSE 0) + RouteDistance(adj, Tail(route))

\* lines 98-122: the neighbours nbrs[i..] of the popped entry cur
RECURSIVE MeNeighbors(_, _, _, _, _)
MeNeighbors(d, cur, nbrs, i, heap) ==
    IF i > Len(nbrs) THEN heap
    ELSE IF \/ nbrs[i][1] \in cur.visited
            \/ cur.current_age + nbrs[i][2] >= d.death_age
    THEN MeNeighbors(d, cur, nbrs, i + 1, heap)
    ELSE MeNeighbors(d, cur, nbrs, i + 1,
             heap \cup { [ neg_count |-> -Cardinality(cur.visited \cup {nbrs[i][1]}),
                           current_age |-> cur.current_age + nbrs[i][2],
                           current_star |-> nbrs[i][1],
                           route |-> Append(cur.route, nbrs[i][1]),
                           visited |-> cur.visited \cup {nbrs[i][1]} ] })

\* lines 85-93: the best solution after popping cur
MeBest(adj, best, cur) ==
    IF -cur.neg_count > best.stars_visited
    THEN [ route |-> cur.route, total_distance |-> RouteDistance(adj, cur.route),
           stars_visited |-> -cur.neg_count, final_age |-> cur.current_age,
           success |-> TRUE ]
    ELSE best

\* lines 71-122: the while loop.  Returns [exc, best, iterations, expanded,
\* heap]: expanded lists the entries popped, in order, heap is what the heap
\* still holds.  Both are kept for the properties only; the code returns
\* neither.
RECURSIVE MeLoop(_, _, _, _, _, _)

\* lines 75-122: an entry is popped; line 98 calls items() on the neighbours
MePopped(g, d, heap, best, iterations, expanded, cur) ==
    IF ~ListHasItems
    THEN [exc |-> "AttributeError", best |-> MeBest(g.adj, best, cur),
          iterations |-> iterations, expanded |-> Append(expanded, cur),
          heap |-> heap \ {cur}]
    ELSE MeLoop(g, d,
                MeNeighbors(d, cur,
                            get_neighbors_with_distance(g.adj, g.has, g.blocked,
                                                        cur.current_star),
                            1, heap \ {cur}),
                MeBest(g.adj, best, cur), iterations, Append(expanded, cur))

MeLoop(g, d, heap, best, iterations, expanded) ==
    IF heap = {} \/ iterations >= MaxIterationsExploration
    THEN [exc |-> "", best |-> best, iterations |-> iterations,
          expanded |-> expanded, heap |-> heap]
    ELSE MePopped(g, d, heap, best, iterations + 1, expanded, MePop(heap))

\* lines 124-128: the result returned, unless an exception left the loop
MeReturn(d, run) ==
    IF run.exc # ""
    THEN [called |-> TRUE, exc |-> run.exc, touched |-> TRUE]
    ELSE [ called |-> TRUE, exc |-> "", touched |-> TRUE,
           expanded |-> run.expanded, heap |-> run.heap,
           result |-> [ route |-> run.best.route,
                        total_distance |-> run.best.total_distance,
                        stars_visited |-> run.best.stars_visited,
                        final_age |-> run.best.final_age,
                        success |-> TRUE,
                        iterations |-> run.iterations,
                        remaining_life |-> d.death_age - run.best.final_age ] ]

\* Returns [called, exc, touched, result] as calculate_optimal_route does; a
\* call that ran the loop and returned also carries the loop's expanded and
\* heap.
dijkstra_max_exploration(g, d, start) ==
    IF get_star(g.smap, start) = << >>
    THEN [ called |-> TRUE, exc |-> "", touched |-> FALSE,
           result |-> [ route |-> << >>, total_distance |-> 0,
                        stars_visited |-> 0, final_age |-> d.current_age,
                        success |-> FALSE,
                        message |-> <<"Estrella inicial ", start, " no existe">> ] ]
    ELSE MeReturn(d, MeLoop(g, d,
             { [ neg_count |-> -1, current_age |-> d.current_age,
                 current_star |-> start, route |-> <<start>>,
                 visited |-> {start} ] },
             [ route |-> <<start>>, total_distance |-> 0, stars_visited |-> 1,
               final_age |-> d.current_age, success |-> TRUE ],
             0, << >>))

---------------------------------------------------------------------------
(* The searches called on a loaded map: RouteController's button for the   *)
(* exploration route, the hypergiant dialog's for the optimal route.       *)

EdgePairs == {<<1, 2>>, <<2, 3>>, <<1, 3>>}
MaxEdges == 3

\* the add_edge calls of a load: each pair at most once, in any order
EdgeLists ==
    { es \in UNION { [1..n -> EdgePairs \X Distances] : n \in 0..MaxEdges } :
        \A i \in DOMAIN es, j \in DOMAIN es : i # j => es[i][1] # es[j][1] }

RECURSIVE LoadEdges(_, _)
LoadEdges(adj, es) ==
    IF es = << >> THEN adj
    ELSE LoadEdges(add_edge(adj, es[1][1][1], es[1][1][2], es[1][2]), Tail(es))

RECURSIVE LoadVertices(_, _)
LoadVertices(adj, ids) ==
    IF ids = {} THEN adj
    ELSE LET x == CHOOSE x \in ids : TRUE
         IN  LoadVertices(add_vertex(adj, x), ids \ {x})

\* star data: the keys simulate_star_visit reads with a default (hypergiant,
\* timeToEat) are present for star 3, a hypergiant, and absent for the others
StarData(star_id) ==
    IF star_id = 3
    THEN [hypergiant |-> <<TRUE>>, timeToEat |-> <<R(3)>>]
    ELSE [hypergiant |-> << >>, timeToEat |-> << >>]

SearchInit ==
    /\ \E ids \in {StarIds, StarIds \ {3}}, es \in EdgeLists :
          /\ star_map = [i \in ids |-> StarData(i)]
          /\ adjacency_list = LoadVertices(LoadEdges(EmptyMap, es), ids)
    /\ \/ has_blocked_edges = FALSE /\ blocked_edges = {}
       \/ has_blocked_edges = TRUE /\ blocked_edges \in {{}} \cup {{e} : e \in EdgePairs}
    /\ research_config \in
          { EmptyMap,
            [i \in {2} |-> [ research_time |-> R(1), energy_cost_per_time |-> R(20),
                             health_effect |-> R(0), life_effect |-> R(0) ]] }
    /\ donkey \in { NewDonkey(R(10), "Moribundo", R(0), 10, death) : death \in {100, 130} }
                  \cup { NewDonkey(R(100), "Excelente", R(300), 10, death) : death \in {100, 130} }
    /\ start_star_id \in StartChoices
    /\ me_prev = NoCall
    /\ me_last = NoCall
    /\ orf_last = NoCall
    /\ PathIdle
    /\ ReplayIdle
    /\ CloneIdle
    /\ last_op = [op |-> "init"]
    /\ nops = 0

Context == [ adj |-> adjacency_list, has |-> has_blocked_edges,
             blocked |-> blocked_edges, smap |-> star_map,
             rconfig |-> research_config ]

\* a search call ends: get_neighbors_with_distance, when reached, has
\* created star_graph.blocked_edges; nothing else of the graph or the
\* caller's agent is assigned
SearchCalled(op, r) ==
    /\ has_blocked_edges' = (has_blocked_edges \/ r.touched)
    /\ blocked_edges' = IF r.touched
                        THEN init_blocked_edges(has_blocked_edges, blocked_edges)
                        ELSE blocked_edges
    /\ last_op' = [op |-> op]
    /\ nops' = nops + 1
    /\ UNCHANGED <<adjacency_list, star_map, research_config, donkey, start_star_id,
                   PathVars, ReplayVars, CloneVars>>

\* RouteController._calculate_max_exploration
CallMaxExploration ==
    /\ nops < MaxCalls
    /\ me_last' = dijkstra_max_exploration(Context, donkey, start_star_id)
    /\ me_prev' = me_last
    /\ SearchCalled("dijkstra_max_exploration", me_last')
    /\ UNCHANGED orf_last

\* ResearchConfigPanel._calculate_optimal_route and
\* HypergigantDialog._calculate_best_route
CallOptimalRoute ==
    /\ nops < MaxCalls
    /\ orf_last' = calculate_optimal_route(Context, start_star_id, donkey)
    /\ SearchCalled("calculate_optimal_route", orf_last')
    /\ UNCHANGED <<me_prev, me_last>>

SearchNext == CallMaxExploration \/ CallOptimalRoute

SpecSearch == SearchInit /\ [][SearchNext]_vars

---------------------------------------------------------------------------
(* calculate_optimal_route step by step, with the objects it works on.     *)
(* store is the heap: store[a] is the object at address a, a Donkey whose  *)
(* visited_stars, grass_consumed and research_time hold the addresses of   *)
(* its list and dicts, or the value of a list or dict.  search holds the   *)
(* local variables of the call; a queue entry holds its agent's address.   *)

MaxCloneOps == 6

\* the agent at address a, with its list and dicts read through
Deref(st, a) ==
    [st[a] EXCEPT !.visited_stars = st[@], !.grass_consumed = st[@],
                  !.research_time = st[@]]

\* the methods of Donkey assign the attributes of the object and change its
\* list and dicts in place (append, item assignment): the agent at address a
\* becomes d
WriteBack(st, a, d) ==
    [st EXCEPT ![a] = [d EXCEPT !.visited_stars = st[a].visited_stars,
                                !.grass_consumed = st[a].grass_consumed,
                                !.research_time = st[a].research_time],
               ![st[a].visited_stars] = d.visited_stars,
               ![st[a].grass_consumed] = d.grass_consumed,
               ![st[a].research_time] = d.research_time]

\* a Donkey object, with a list and dicts of its own, holding the value d
NewObject(st, d) ==
    [st |-> st \o << d.visited_stars, d.grass_consumed, d.research_time,
                     [d EXCEPT !.visited_stars = Len(st) + 1,
                               !.grass_consumed = Len(st) + 2,
                               !.research_time = Len(st) + 3] >>,
     a |-> Len(st) + 4]

clone_donkey_shared(st, a) ==
    [st |-> st \o << st[st[a].visited_stars], st[st[a].grass_consumed],
                     st[st[a].research_time], clone_donkey(st[a]) >>,
     a |-> Len(st) + 4]

\* _clone_donkey on objects: a new Donkey with the scalar attributes of the
\* one at address a and copies (.copy()) of its list and dicts.  Returns the
\* heap and the address of the clone.
clone_donkey_object(st, a) ==
    [st |-> st \o << st[st[a].visited_stars], st[st[a].grass_consumed],
                     st[st[a].research_time],
                     [clone_donkey(st[a]) EXCEPT !.visited_stars = Len(st) + 1,
                                                 !.grass_consumed = Len(st) + 2,
                                                 !.research_time = Len(st) + 3] >>,
     a |-> Len(st) + 4]

\* get_report on objects: the dict holds copies of the list and dicts
get_report_object(st, a) ==
    [st |-> st \o << st[st[a].visited_stars], st[st[a].grass_consumed],
                     st[st[a].research_time] >>,
     ret |-> [get_report(Deref(st, a)) EXCEPT !.visited_stars = Len(st) + 1,
                                              !.grass_consumed = Len(st) + 2,
                                              !.research_time = Len(st) + 3]]

\* a step of the call ends; clone is the address of the clone the step made,
\* 0 when it made none
CloneStep(op, clone, exc) ==
    /\ last_op' = [op |-> op, clone |-> clone, exc |-> exc]
    /\ nops' = nops + 1
    /\ UNCHANGED <<adjacency_list, star_map, research_config, donkey, start_star_id,
                   me_prev, me_last, orf_last, PathVars, ReplayVars>>

\* lines 51-97: the call begins.  The caller's agent is the object the call
\* was given; the clone of it records the first visit and is reported.
CloneStart ==
    /\ nops < MaxCloneOps
    /\ search.pc = "idle"
    /\ IF start_star_id \notin get_all_vertices(adjacency_list)
       THEN /\ store' = << >>
            /\ search' = [pc |-> "idle"]
            /\ CloneStep("return", 0, "")
       ELSE /\ \E c \in {NewObject(<< >>, donkey)} :
               \E i \in {clone_donkey_object(c.st, c.a)} :
               \E r \in {get_report_object(
                            WriteBack(i.st, i.a,
                                      visit_star(Deref(i.st, i.a), start_star_id)),
                            i.a)} :
                  /\ store' = r.st
                  /\ search' =
                       [ pc |-> "loop", caller |-> c.a,
                         queue |-> { [ priority |-> R(-(1 * 1000) + 0),
                                       num_visited |-> 1, energy_spent |-> R(0),
                                       current_star |-> start_star_id,
                                       path |-> <<start_star_id>>,
                                       donkey |-> i.a, steps |-> << >> ] },
                         cur |-> << >>, nbrs |-> << >>, i |-> 0,
                         best |-> [ stars_visited |-> 1, route |-> <<start_star_id>>,
                                    energy_spent |-> R(0), donkey_state |-> r.ret,
                                    simulation_steps |-> << >> ],
                         visited_states |-> {<<start_star_id, 1>>},
                         iteration |-> 0 ]
                  /\ CloneStep("start", i.a, "")
    /\ UNCHANGED <<has_blocked_edges, blocked_edges>>

\* lines 99-124: an entry is popped, the best result replaced by a report of
\* its agent when it is better, its neighbours listed
ClonePop ==
    /\ nops < MaxCloneOps
    /\ search.pc = "loop"
    /\ search.queue # {}
    /\ search.iteration < MaxIterationsOptimal
    /\ \E cur \in {OrfPop(search.queue)} :
       \E nbrs \in {get_neighbors_with_distance(adjacency_list, has_blocked_edges,
                                               blocked_edges, cur.current_star)} :
       \E r \in {get_report_object(store, cur.donkey)} :
       \E better \in {\/ cur.num_visited > search.best.stars_visited
                      \/ /\ cur.num_visited = search.best.stars_visited
                         /\ RLt(cur.energy_spent, search.best.energy_spent)} :
          /\ store' = IF better THEN r.st ELSE store
          /\ search' = [search EXCEPT
                 !.pc = IF nbrs = << >> THEN "loop" ELSE "neighbors",
                 !.iteration = @ + 1,
                 !.queue = @ \ {cur},
                 !.cur = <<cur>>, !.nbrs = nbrs, !.i = 1,
                 !.best = IF better
                          THEN [ stars_visited |-> cur.num_visited,
                                 route |-> cur.path,
                                 energy_spent |-> cur.energy_spent,
                                 donkey_state |-> r.ret,
                                 simulation_steps |-> cur.steps ]
                          ELSE @ ]
    /\ has_blocked_edges' = TRUE
    /\ blocked_edges' = init_blocked_edges(has_blocked_edges, blocked_edges)
    /\ CloneStep("pop", 0, "")

\* the loop over the neighbours goes on with the next one, or ends
CloneAdvance(s) ==
    [s EXCEPT !.i = @ + 1, !.pc = IF s.i + 1 > Len(s.nbrs) THEN "loop" ELSE "neighbors"]

\* lines 126-172: one neighbour of the popped entry.  A clone of the popped
\* entry's agent makes the visit; the entry pushed holds the clone.
CloneNeighbor ==
    /\ nops < MaxCloneOps
    /\ search.pc = "neighbors"
    /\ \E cur \in {search.cur[1]}, neighbor_id \in {search.nbrs[search.i][1]} :
       IF InSeq(neighbor_id, cur.path)
       THEN /\ store' = store
            /\ search' = CloneAdvance(search)
            /\ CloneStep("neighbor", 0, "")
       ELSE \E c \in {clone_donkey_object(store, cur.donkey)} :
            \E v \in {simulate_star_visit(Context, Deref(c.st, c.a),
                                          <<cur.current_star>>, neighbor_id)} :
            \E st \in {WriteBack(c.st, c.a, v.d)} :
               /\ store' = st
               /\ CloneStep("neighbor", c.a, v.exc)
               /\ search' =
                    IF v.exc # ""
                    THEN [search EXCEPT !.pc = "idle"]
                    ELSE IF \/ VisitDiscarded(v.result)
                            \/ <<neighbor_id, cur.num_visited + 1>> \in search.visited_states
                    THEN CloneAdvance(search)
                    ELSE [CloneAdvance(search) EXCEPT
                            !.visited_states = @ \cup {<<neighbor_id, cur.num_visited + 1>>},
                            !.queue = @ \cup
                               { [ OrfEntry(cur, neighbor_id, v,
                                            RAdd(cur.energy_spent,
                                                 RSub(st[cur.donkey].energy,
                                                      st[c.a].energy)))
                                   EXCEPT !.donkey = c.a ] }]
    /\ UNCHANGED <<has_blocked_edges, blocked_edges>>

\* lines 99 and 174-183: the loop ends and the best result is returned
CloneReturn ==
    /\ nops < MaxCloneOps
    /\ search.pc = "loop"
    /\ search.queue = {} \/ search.iteration >= MaxIterationsOptimal
    /\ search' = [search EXCEPT !.pc = "idle"]
    /\ CloneStep("return", 0, "")
    /\ UNCHANGED <<store, has_blocked_edges, blocked_edges>>

CloneNext == CloneStart \/ ClonePop \/ CloneNeighbor \/ CloneReturn

SpecClone == SearchInit /\ [][CloneNext]_vars

---------------------------------------------------------------------------
(* RouteSimulator.simulate_star_visit called on the agent itself: one      *)
(* visit after another from a loaded map.                                  *)

MaxVisits == 2

\* the research parameters configured for star 2: a research the weak agent
\* cannot pay, or one with a life effect
VisitConfigs ==
    { EmptyMap,
      [i \in {2} |-> [ research_time |-> R(1), energy_cost_per_time |-> R(20),
                       health_effect |-> R(0), life_effect |-> R(0) ]],
      [i \in {2} |-> [ research_time |-> R(5), energy_cost_per_time |-> R(1),
                       health_effect |-> R(0), life_effect |-> R(200) ]] }

VisitInit ==
    /\ \E ids \in {StarIds, StarIds \ {3}}, d12 \in Distances, d23 \in Distances :
          /\ star_map = [i \in ids |-> StarData(i)]
          /\ adjacency_list =
                 LoadVertices(LoadEdges(EmptyMap, << <<<<1, 2>>, d12>>, <<<<2, 3>>, d23>> >>),
                              StarIds)
    /\ has_blocked_edges = FALSE
    /\ blocked_edges = {}
    /\ research_config \in VisitConfigs
    /\ donkey \in { NewDonkey(R(10), "Moribundo", R(0), 10, death) : death \in {100, 130} }
                  \cup { NewDonkey(R(100), "Excelente", R(300), 10, death) : death \in {100, 130} }
    /\ start_star_id \in StarIds
    /\ me_prev = NoCall
    /\ me_last = NoCall
    /\ orf_last = NoCall
    /\ PathIdle
    /\ ReplayIdle
    /\ CloneIdle
    /\ last_op = [op |-> "init"]
    /\ nops = 0

\* the visit ends: the agent is left as the visit changed it, whether the
\* call returned or raised
VisitCalled(current_star_id, next_star_id, r) ==
    /\ donkey' = r.d
    /\ last_op' = [op |-> "simulate_star_visit", current |-> current_star_id,
                   next |-> next_star_id, exc |-> r.exc, result |-> r.result]
    /\ nops' = nops + 1
    /\ UNCHANGED <<GraphVars, star_map, research_config, start_star_id,
                   me_prev, me_last, orf_last, PathVars, ReplayVars, CloneVars>>

\* simulate_star_visit(donkey, current_star_id, next_star_id)
SimulateStarVisit(current_star_id, next_star_id) ==
    /\ nops < MaxVisits
    /\ VisitCalled(current_star_id, next_star_id,
                   simulate_star_visit(Context, donkey, current_star_id, next_star_id))

\* the first visit has no current star (None); the others leave from a star
VisitNext ==
    \/ \E n \in StarIds : SimulateStarVisit(<< >>, n)
    \/ \E c \in StarIds, n \in StarIds : SimulateStarVisit(<<c>>, n)

SpecVisit == VisitInit /\ [][VisitNext]_vars

---------------------------------------------------------------------------
(* Graph (graph.py), the directed graph of Vertex objects, and             *)
(* dijkstra_simple (pathfinding.py) on it.  An infinite distance           *)
(* (math.inf) is << >>, a finite distance d is <<d>>.                      *)

MaxPathOps == 4
PathWeights == {50, 100, 150}

\* Graph.add_vertex: a new Vertex, with no connections, takes the id
graph_add_vertex(vl, id) ==
    [v \in DOMAIN vl \cup {id} |-> IF v = id THEN << >> ELSE vl[v]]

\* the vertices Graph.add_edge creates before it adds the connection
graph_with_ends(vl, from_id, to_id) ==
    [v \in DOMAIN vl \cup {from_id, to_id} |-> IF v \in DOMAIN vl THEN vl[v] ELSE << >>]

\* Graph.add_edge: the connection from_id -> to_id only
graph_add_edge(vl, from_id, to_id, weight) ==
    [graph_with_ends(vl, from_id, to_id) EXCEPT ![from_id] = DictSet(@, to_id, weight)]

graph_get_vertices(vl) == DOMAIN vl

\* x < y on distances that may be math.inf
DistLess(x, y) == x # << >> /\ (y = << >> \/ x[1] < y[1])

\* min(no_visitados, key=...): the first element, in the set's iteration
\* order, that no other element beats
DjMin(no_visitados, dist, order) ==
    order[CHOOSE i \in DOMAIN order :
            /\ order[i] \in no_visitados
            /\ \A y \in no_visitados : ~DistLess(dist[y], dist[order[i]])
            /\ \A j \in 1..(i - 1) :
                  order[j] \in no_visitados =>
                      \E y \in no_visitados : DistLess(dist[y], dist[order[j]])]

\* lines 32-38: whether the edge u -> v is relaxed
DjRelaxes(vl, dist, no_visitados, u, v) ==
    /\ v \in no_visitados
    /\ DictHas(vl[u], v)
    /\ DistLess(<<dist[u][1] + DictGet(vl[u], v)[1]>>, dist[v])

\* lines 18-44: the while loop.  Returns [dist, pred].
RECURSIVE DjLoop(_, _, _, _, _, _)

\* lines 25-38: u leaves no_visitados and its edges are relaxed
DjVisit(vl, dist, pred, no_visitados, target_id, order, u) ==
    IF dist[u] = << >> \/ u = target_id
    THEN [dist |-> dist, pred |-> pred]
    ELSE DjLoop(vl,
                [v \in DOMAIN dist |->
                    IF DjRelaxes(vl, dist, no_visitados \ {u}, u, v)
                    THEN <<dist[u][1] + DictGet(vl[u], v)[1]>> ELSE dist[v]],
                [v \in DOMAIN pred |->
                    IF DjRelaxes(vl, dist, no_visitados \ {u}, u, v)
                    THEN <<u>> ELSE pred[v]],
                no_visitados \ {u}, target_id, order)

DjLoop(vl, dist, pred, no_visitados, target_id, order) ==
    IF no_visitados = {}
    THEN [dist |-> dist, pred |-> pred]
    ELSE DjVisit(vl, dist, pred, no_visitados, target_id, order,
                 DjMin(no_visitados, dist, order))

\* lines 47-51: the path rebuilt from pred; << >> when pred[actual] raises
\* KeyError
RECURSIVE DjPath(_, _, _)
DjPath(pred, actual, path) ==
    IF actual \notin DOMAIN pred THEN << >>
    ELSE IF pred[actual] = << >> THEN <<actual>> \o path
    ELSE DjPath(pred, pred[actual][1], <<actual>> \o path)

\* lines 46-55: the path, the line printed with str.join, the return
DjReturn(ids, run, target_id, path) ==
    IF path = << >>
    THEN [called |-> TRUE, exc |-> "KeyError"]
    ELSE IF ids # "str"
    THEN [called |-> TRUE, exc |-> "TypeError"]
    ELSE [called |-> TRUE, exc |-> "", dist |-> run.dist, pred |-> run.pred,
          path |-> path]

DjFinish(ids, run, target_id) ==
    DjReturn(ids, run, target_id, DjPath(run.pred, target_id, << >>))

\* order is the iteration order of the set no_visitados; ids is the type of
\* the graph's ids
dijkstra_simple(vl, ids, start_id, target_id, order) ==
    DjFinish(ids,
             DjLoop(vl,
                    [v \in DOMAIN vl \cup {start_id} |->
                        IF v = start_id THEN <<0>> ELSE << >>],
                    [v \in DOMAIN vl |-> << >>],
                    graph_get_vertices(vl), target_id, order),
             target_id)

\* the iteration orders a set of ids may have
SetOrders ==
    { o \in [1..Cardinality(StarIds) -> StarIds] :
        \A i \in DOMAIN o, j \in DOMAIN o : i # j => o[i] # o[j] }

PathInit ==
    /\ GraphIdle
    /\ SearchIdle
    /\ donkey = IdleDonkey
    /\ vertex_list = EmptyMap
    /\ num_vertex = 0
    /\ id_type \in {"int", "str"}
    /\ dj_last = NoCall
    /\ ReplayIdle
    /\ CloneIdle
    /\ last_op = [op |-> "init"]
    /\ nops = 0

PathStep(op) ==
    /\ nops < MaxPathOps
    /\ last_op' = op
    /\ nops' = nops + 1
    /\ UNCHANGED <<GraphVars, SearchVars, donkey, id_type, ReplayVars, CloneVars>>

GraphAddVertex(id) ==
    /\ PathStep([op |-> "Graph.add_vertex", a |-> id])
    /\ vertex_list' = graph_add_vertex(vertex_list, id)
    /\ num_vertex' = num_vertex + 1
    /\ UNCHANGED dj_last

GraphAddEdge(from_id, to_id, weight) ==
    /\ PathStep([op |-> "Graph.add_edge", a |-> from_id, b |-> to_id, w |-> weight])
    /\ vertex_list' = graph_add_edge(vertex_list, from_id, to_id, weight)
    /\ num_vertex' = num_vertex + Cardinality({from_id, to_id} \ DOMAIN vertex_list)
    /\ UNCHANGED dj_last

CallDijkstraSimple(start_id, target_id, order) ==
    /\ PathStep([op |-> "dijkstra_simple", start |-> start_id, target |-> target_id])
    /\ dj_last' = dijkstra_simple(vertex_list, id_type, start_id, target_id, order)
    /\ UNCHANGED <<vertex_list, num_vertex>>

PathNext ==
    \/ \E id \in StarIds : GraphAddVertex(id)
    \/ \E a \in StarIds, b \in StarIds, w \in PathWeights : GraphAddEdge(a, b, w)
    \/ \E a \in StarIds, b \in StarIds, o \in SetOrders : CallDijkstraSimple(a, b, o)

SpecPath == PathInit /\ [][PathNext]_vars

---------------------------------------------------------------------------
(* SimulationController (simulation_controller.py): the step-by-step       *)
(* replay of a route.  A button that is disabled calls nothing.  A step of *)
(* a loaded simulation is the outcome of a visit, whose hypergiant_bonus   *)
(* is None, so _render_step never opens the hypergiant dialog and          *)
(* selected_destination stays None.                                        *)

MaxReplayOps == 6
MaxSteps == 3

\* _finish_simulation: lines 255-261
finish_simulation(c) ==
    [c EXCEPT !.is_playing = FALSE, !.next_button = FALSE, !.play_button = FALSE]

\* _next_step.  Returns [sim, scheduled, rendered]: the controller after the
\* call, the number of callbacks the call scheduled with after(), whether a
\* step was rendered.
next_step(c) ==
    IF c.current_step_index >= c.num_steps - 1
    THEN [sim |-> finish_simulation(c), scheduled |-> 0, rendered |-> FALSE]
    ELSE [sim |-> [c EXCEPT !.current_step_index = @ + 1],
          scheduled |-> IF c.is_playing THEN 1 ELSE 0,
          rendered |-> TRUE]

\* load_simulation: lines 140-157
load_simulation(c, n) ==
    [c EXCEPT !.num_steps = n, !.current_step_index = -1, !.is_playing = FALSE,
              !.start_button = TRUE]

\* _start_simulation up to its call of _next_step: lines 170-184
start_simulation(c) ==
    [c EXCEPT !.current_step_index = -1, !.is_playing = FALSE,
              !.next_button = TRUE, !.play_button = TRUE, !.stop_button = TRUE]

\* _stop_simulation: lines 236-248
stop_simulation(c) ==
    [c EXCEPT !.is_playing = FALSE, !.current_step_index = -1,
              !.next_button = FALSE, !.play_button = FALSE, !.stop_button = FALSE]

ReplayInit ==
    /\ GraphIdle
    /\ SearchIdle
    /\ donkey = IdleDonkey
    /\ PathIdle
    /\ ReplayIdle
    /\ CloneIdle
    /\ last_op = [op |-> "init"]
    /\ nops = 0

\* an event of the replay ends
ReplayStep(op, press, r) ==
    /\ sim' = r.sim
    /\ after_queue' = after_queue + r.scheduled
    /\ last_press' = press
    /\ last_op' = [op |-> op, rendered |-> r.rendered]
    /\ nops' = nops + 1
    /\ UNCHANGED <<GraphVars, SearchVars, donkey, PathVars, CloneVars>>

\* ResearchConfigPanel loads the steps of a route
LoadSimulation(n) ==
    /\ nops < MaxReplayOps
    /\ ReplayStep("load_simulation", "load",
                  [sim |-> load_simulation(sim, n), scheduled |-> 0, rendered |-> FALSE])

\* the Start button: _start_simulation
PressStart ==
    /\ nops < MaxReplayOps
    /\ sim.start_button
    /\ IF sim.num_steps = 0
       THEN ReplayStep("_start_simulation", "start",
                       [sim |-> sim, scheduled |-> 0, rendered |-> FALSE])
       ELSE ReplayStep("_start_simulation", "start", next_step(start_simulation(sim)))

\* the Next button: _next_step
PressNext ==
    /\ nops < MaxReplayOps
    /\ sim.next_button
    /\ ReplayStep("_next_step", "next", next_step(sim))

\* the Auto button: _toggle_auto_play
PressPlay ==
    /\ nops < MaxReplayOps
    /\ sim.play_button
    /\ IF ~sim.is_playing
       THEN ReplayStep("_toggle_auto_play", "auto",
                       next_step([sim EXCEPT !.is_playing = TRUE, !.next_button = FALSE]))
       ELSE ReplayStep("_toggle_auto_play", "pause",
                       [sim |-> [sim EXCEPT !.is_playing = FALSE, !.next_button = TRUE],
                        scheduled |-> 0, rendered |-> FALSE])

\* the Stop button: _stop_simulation
PressStop ==
    /\ nops < MaxReplayOps
    /\ sim.stop_button
    /\ ReplayStep("_stop_simulation", "stop",
                  [sim |-> stop_simulation(sim), scheduled |-> 0, rendered |-> FALSE])

\* Tk runs a callback scheduled with after(play_speed, self._next_step)
TimerFires ==
    /\ nops < MaxReplayOps
    /\ after_queue > 0
    /\ LET r == next_step(sim)
       IN  ReplayStep("after", last_press, [r EXCEPT !.scheduled = @ - 1])

ReplayNext ==
    \/ \E n \in 0..MaxSteps : LoadSimulation(n)
    \/ PressStart
    \/ PressNext
    \/ PressPlay
    \/ PressStop
    \/ TimerFires

SpecReplay == ReplayInit /\ [][ReplayNext]_vars

---------------------------------------------------------------------------
(* Properties of the graph store, checked under Spec.                      *)

\* C1: after any sequence of add_vertex and add_edge calls the adjacency is
\* symmetric: b is a neighbour of a with weight w exactly when a is a
\* neighbour of b with the same weight w.
C1_AdjacencySymmetric ==
    \A a \in StarIds, b \in StarIds :
        DictGet(get_neighbors(adjacency_list, a), b)
            = DictGet(get_neighbors(adjacency_list, b), a)

\* C1 witness: add_edge(2, 1, 90) has just overwritten the edge that star 1
\* listed before its edge to star 3, and both directions hold 90.
C1_OverwrittenBothWays ==
    /\ last_op = [op |-> "add_edge", a |-> 2, b |-> 1, w |-> 90]
    /\ adjacency_list[1] = << <<2, 90>>, <<3, 50>> >>
    /\ DictGet(adjacency_list[2], 1) = <<90>>

\* what neighbors(a) shows of b: <<w>> when b is listed with weight w
Visible(a, b) ==
    DictGet(get_neighbors_with_distance(adjacency_list, has_blocked_edges,
                                        blocked_edges, a), b)

\* a step of set_edge_blocked(x, y, flag), called directly or by the toggle
BlockStep(x, y, flag) ==
    /\ nops' = nops + 1
    /\ last_op'.op \in {"set_edge_blocked", "toggle_edge_block"}
    /\ last_op'.a = x /\ last_op'.b = y /\ last_op'.flag = flag

\* C7: whatever the interleaving of set_blocked calls, both endpoints of an
\* edge show it or neither does; a call blocking {x, y} removes the edge from
\* both endpoints at once, a call unblocking it shows it again at both
\* endpoints with the weight the adjacency holds, which no set_blocked call
\* changes, and no other pair is affected.
C7_BlockingSymmetric ==
    /\ [](\A a \in StarIds, b \in StarIds : Visible(a, b) = Visible(b, a))
    /\ [][\A x \in StarIds, y \in StarIds, flag \in BOOLEAN :
            BlockStep(x, y, flag) =>
              /\ adjacency_list' = adjacency_list
              /\ \A a \in StarIds, b \in StarIds :
                    Visible(a, b)' =
                        IF {a, b} = {x, y}
                        THEN IF flag THEN << >>
                             ELSE DictGet(get_neighbors(adjacency_list, a), b)
                        ELSE Visible(a, b)]_vars

\* C7 witness: the toggle, which unblocks only an edge it finds blocked, has
\* just unblocked the edge {1, 2} of weight 50, and both endpoints show it
\* with that weight again.
C7_UnblockedRestored ==
    /\ last_op = [op |-> "toggle_edge_block", a |-> 1, b |-> 2, flag |-> FALSE]
    /\ nops = 3
    /\ Visible(1, 2) = <<50>>
    /\ Visible(2, 1) = <<50>>

---------------------------------------------------------------------------
(* Properties of the agent, checked under SpecDonkey.                      *)

\* C2: starting from an agent whose energy is in [0, 100], the energy stays
\* in [0, 100] after any sequence of eat, research and portal-bonus
\* operations with non-negative research time and cost.
C2_EnergyInRange ==
    /\ RLe(R(0), donkey.energy)
    /\ RLe(donkey.energy, R(100))

\* C2 witness: a research costing 20 has just failed and left the energy at
\* exactly 0, and the portal bonus applied before it left food for 20 or 40.
C2_ResearchClampedAtZero ==
    /\ last_op = [op |-> "do_research", ret |-> FALSE, time_spent |-> R(1),
                  energy_cost_per_time |-> R(20)]
    /\ donkey.energy = R(0)
    /\ donkey.health_state = "Muerto"
    /\ donkey.grass_kg \in {R(20), R(40)}

\* C6: the portal bonus sets the energy to min(100, 1.5 x energy), doubles
\* the food stock and changes no other field (age, health tier, ledgers);
\* an agent with energy 40 and food 10 ends with energy 60 and food 20.
C6_PortalBonus ==
    [][(nops' = nops + 1 /\ last_op'.op = "use_hypergiant_portal") =>
          /\ RMul(donkey'.energy, R(2)) = RMin(R(200), RMul(R(3), donkey.energy))
          /\ donkey'.grass_kg = RAdd(donkey.grass_kg, donkey.grass_kg)
          /\ \A f \in DOMAIN donkey \ {"energy", "grass_kg"} : donkey'[f] = donkey[f]
          /\ (donkey.energy = R(40) /\ donkey.grass_kg = R(10)) =>
                (donkey'.energy = R(60) /\ donkey'.grass_kg = R(20))]_vars

\* C6 witness: the first operation on an agent of tier "Mala" was the portal
\* bonus; it left energy 60 and food 20, and the tier is still "Mala".
C6_PortalFortyTen ==
    /\ last_op = [op |-> "use_hypergiant_portal"]
    /\ nops = 1
    /\ donkey.energy = R(60)
    /\ donkey.grass_kg = R(20)
    /\ donkey.health_state = "Mala"
    /\ donkey.current_age = donkey.start_age

---------------------------------------------------------------------------
(* Properties of the two searches, checked under SpecSearch.               *)

NoRepeat(route) == \A i \in DOMAIN route, j \in DOMAIN route : i # j => route[i] # route[j]

\* the star the caller selected is a vertex of the graph with star data
StartPresent ==
    /\ start_star_id \in get_all_vertices(adjacency_list)
    /\ start_star_id \in DOMAIN star_map

\* C3: a call of dijkstra_max_exploration or of calculate_optimal_route
\* returns a route, and no star id occurs in that route more than once.
C3_ReturnedRoutesSimple ==
    /\ me_last.called =>
          me_last.exc = "" /\ NoRepeat(me_last.result.route)
    /\ orf_last.called =>
          orf_last.exc = "" /\ NoRepeat(orf_last.result.route)

\* the weight of the edge {a, b} when it exists and is not blocked
OpenEdge(a, b) ==
    IF SortedPair(a, b) \in blocked_edges
    THEN << >>
    ELSE DictGet(get_neighbors(adjacency_list, a), b)

\* the age after the first k hops of path p taken from age
RECURSIVE AgeAfter(_, _, _)
AgeAfter(age, p, k) ==
    IF k = 0 THEN age
    ELSE AgeAfter(age, p, k - 1) + OpenEdge(p[k], p[k + 1])[1]

\* the simple paths from the start over unblocked edges that keep the age
\* strictly below death_age after every hop
SurvivablePaths ==
    { p \in UNION { [1..n -> StarIds] : n \in 1..Cardinality(StarIds) } :
        /\ p[1] = start_star_id
        /\ NoRepeat(p)
        /\ \A k \in 1..(Len(p) - 1) : OpenEdge(p[k], p[k + 1]) # << >>
        /\ \A k \in 1..(Len(p) - 1) : AgeAfter(donkey.current_age, p, k) < donkey.death_age }

\* C4: called with a start star that is present, dijkstra_max_exploration
\* returns one of the simple paths from the start over unblocked edges that
\* keep start_age plus the cumulative weight strictly below death_age, and
\* none of those paths has more stars than the returned route.
C4_MaxExplorationMaximal ==
    (me_last.called /\ StartPresent) =>
        /\ me_last.exc = ""
        /\ me_last.result.route \in SurvivablePaths
        /\ \A p \in SurvivablePaths : Len(p) <= Len(me_last.result.route)

\* the research parameters simulate_star_visit uses at star n
ResearchAt(n) ==
    IF n \in DOMAIN research_config THEN research_config[n] ELSE DefaultResearchParams

\* the agent as it starts the research at star n after the hop of weight w
\* from the start: it has travelled, and eaten if its energy was below 50
ArrivedAt(n, w) ==
    eat(visit_star(travel(donkey, w).d, n),
        IF star_map[n].timeToEat # << >> THEN star_map[n].timeToEat[1] ELSE R(1),
        <<R(5)>>)

\* the move from the start to its neighbour n is one on which the simulated
\* agent dies: its age reaches death_age on the way, or the research at n
\* takes its energy to 0
FatalMove(n) ==
    /\ n # start_star_id
    /\ OpenEdge(start_star_id, n) # << >>
    /\ \/ donkey.current_age + OpenEdge(start_star_id, n)[1] >= donkey.death_age
       \/ /\ n \in DOMAIN star_map
          /\ is_alive(donkey)
          /\ ArrivedAt(n, OpenEdge(start_star_id, n)[1]).exc = ""
          /\ RLe(RSub(ArrivedAt(n, OpenEdge(start_star_id, n)[1]).d.energy,
                      RMul(ResearchAt(n).research_time,
                           ResearchAt(n).energy_cost_per_time)),
                 R(0))

\* C5: when the move from the start to a neighbour is one on which the
\* simulated agent dies, calculate_optimal_route returns a result whose
\* route does not take that move (the neighbour does not follow the start
\* in it), and every step of the returned trace has success = true.
C5_FatalMoveExcluded ==
    \A n \in StarIds :
        (orf_last.called /\ StartPresent /\ FatalMove(n)) =>
            /\ orf_last.exc = ""
            /\ ~(Len(orf_last.result.route) >= 2 /\ orf_last.result.route[2] = n)
            /\ \A i \in DOMAIN orf_last.result.simulation_steps :
                  orf_last.result.simulation_steps[i].success

\* C8: two calls of dijkstra_max_exploration on the same graph, blocked
\* edges, agent and start star both return, with the same route and the same
\* total_distance.
C8_MaxExplorationRepeatable ==
    (me_prev.called /\ me_last.called) =>
        /\ me_prev.exc = ""
        /\ me_last.exc = ""
        /\ me_last.result.route = me_prev.result.route
        /\ me_last.result.total_distance = me_prev.result.total_distance

\* what a search step has to leave behind
SearchOutcome(r, absent) ==
    /\ r.exc = ""
    /\ IF absent
       THEN /\ ~r.result.success
            /\ r.result.route = << >>
            /\ r.result.message # << >>
            /\ UNCHANGED <<donkey, adjacency_list, has_blocked_edges, blocked_edges>>
       ELSE /\ r.result.success
            /\ Len(r.result.route) >= 1
            /\ r.result.route[1] = start_star_id

\* C9: a search called with a start star absent from the graph returns a
\* result with success = false, an empty route and a message, and changes
\* neither the agent nor the graph; called with a start star that is
\* present it returns a successful result whose route begins at the start,
\* so is never worse than [start].
C9_StartHandling ==
    [][/\ (nops' = nops + 1 /\ last_op'.op = "dijkstra_max_exploration") =>
            SearchOutcome(me_last', start_star_id \notin get_all_vertices(adjacency_list))
       /\ (nops' = nops + 1 /\ last_op'.op = "calculate_optimal_route") =>
            SearchOutcome(orf_last', start_star_id \notin get_all_vertices(adjacency_list))
      ]_vars

\* C10: for every start star present in the graph calculate_optimal_route
\* completes and returns a result with success = true; no simulated death
\* and no error ends the search.
C10_OptimalRouteCompletes ==
    (orf_last.called /\ start_star_id \in get_all_vertices(adjacency_list)) =>
        /\ orf_last.exc = ""
        /\ orf_last.result.success

\* C11: calculate_optimal_route returns the route of a state it expanded; no
\* expanded state has more stars than the returned route, and no expanded
\* state with as many stars has a smaller cumulative energy cost.
C11_BestOfExpanded ==
    (orf_last.called /\ StartPresent) =>
        /\ orf_last.exc = ""
        /\ \E i \in DOMAIN orf_last.expanded :
              /\ orf_last.expanded[i].path = orf_last.result.route
              /\ orf_last.expanded[i].num_visited = orf_last.result.total_stars_visited
              /\ orf_last.expanded[i].energy_spent = orf_last.result.total_energy_spent
        /\ \A i \in DOMAIN orf_last.expanded :
              /\ orf_last.expanded[i].num_visited <= orf_last.result.total_stars_visited
              /\ orf_last.expanded[i].num_visited = orf_last.result.total_stars_visited =>
                    RLe(orf_last.result.total_energy_spent,
                        orf_last.expanded[i].energy_spent)

\* the keys of the result calculate_optimal_route documents
OptimalResultKeys ==
    { "success", "route", "simulation_steps", "final_donkey_state",
      "total_stars_visited", "total_energy_spent", "message" }

\* C12: a call of calculate_optimal_route with a start star that is present
\* expands at most 10,000 states and then returns success = true with the
\* best candidate found, also when the cap stopped the loop with states
\* still queued; the result carries no key that tells the two cases apart.
C12_IterationCap ==
    (orf_last.called /\ StartPresent) =>
        /\ orf_last.exc = ""
        /\ orf_last.iteration <= MaxIterationsOptimal
        /\ Len(orf_last.expanded) = orf_last.iteration
        /\ (orf_last.queued > 0) => (orf_last.iteration = MaxIterationsOptimal)
        /\ orf_last.result.success
        /\ DOMAIN orf_last.result = OptimalResultKeys

\* the sum of the weights of the first k hops of path p
RECURSIVE HopSum(_, _)
HopSum(p, k) ==
    IF k = 0 THEN 0
    ELSE HopSum(p, k - 1) + DictGet(get_neighbors(adjacency_list, p[k]), p[k + 1])[1]

\* C13: dijkstra_max_exploration called with a start star that is present
\* returns a route; when the route has more than one star, start_age plus
\* the cumulative edge weight is strictly below death_age after every hop,
\* the reported total_distance is the sum of the route's edge weights and
\* the reported final_age is start_age + total_distance.
C13_ExplorationAges ==
    (me_last.called /\ StartPresent) =>
        /\ me_last.exc = ""
        /\ Len(me_last.result.route) > 1 =>
              /\ \A k \in 1..(Len(me_last.result.route) - 1) :
                    donkey.start_age + HopSum(me_last.result.route, k) < donkey.death_age
              /\ me_last.result.total_distance =
                    HopSum(me_last.result.route, Len(me_last.result.route) - 1)
              /\ me_last.result.final_age =
                    donkey.start_age + me_last.result.total_distance

---------------------------------------------------------------------------
(* Properties of dijkstra_simple, checked under SpecPath.                  *)

\* the total weights of the directed paths from u to t that stay out of seen
RECURSIVE PathTotals(_, _, _, _)
PathTotals(vl, u, t, seen) ==
    IF u = t THEN {0}
    ELSE UNION { { DictGet(vl[u], v)[1] + x : x \in PathTotals(vl, v, t, seen \cup {v}) } :
                 v \in DictKeys(vl[u]) \ seen }

MinTotal(totals) ==
    IF totals = {} THEN << >>
    ELSE <<CHOOSE x \in totals : \A y \in totals : x <= y>>

\* C14: a call of dijkstra_simple with start and target in the graph returns,
\* and the dist[target] it returns is the minimum total weight over the
\* directed paths from start to target, infinity when there is none.
C14_ShortestDistance ==
    (/\ last_op.op = "dijkstra_simple"
     /\ last_op.start \in DOMAIN vertex_list
     /\ last_op.target \in DOMAIN vertex_list)
    => /\ dj_last.exc = ""
       /\ dj_last.dist[last_op.target] =
              MinTotal(PathTotals(vertex_list, last_op.start, last_op.target,
                                  {last_op.start}))

---------------------------------------------------------------------------
(* Properties of the Donkey's operations, one step at a time, checked      *)
(* under SpecDonkey.                                                       *)

EnergyOps == {"eat", "do_research", "use_hypergiant_portal"}

\* C15: after every eat, research or portal bonus that changed the energy,
\* the stored health tier is the tier the thresholds give for the new energy.
C15_TierFollowsEnergy ==
    [][(last_op'.op \in EnergyOps /\ donkey'.energy # donkey.energy)
       => donkey'.health_state = update_health_state(donkey').health_state]_vars

\* C16: a donkey that is not alive is not alive after a travel, an eat, a
\* research or a portal bonus.
C16_DeadIsTerminal ==
    [][(last_op'.op \in EnergyOps \cup {"travel"} /\ ~is_alive(donkey))
       => ~is_alive(donkey')]_vars

\* C17: travel adds the distance to the age and to the distance counter; it
\* returns false exactly when the new age is at least death_age, and then
\* the tier is dead; otherwise the tier is kept; nothing else changes.
C17_TravelAges ==
    [][last_op'.op = "travel"
       => /\ donkey'.current_age = donkey.current_age + last_op'.distance
          /\ donkey'.total_distance_traveled =
                 donkey.total_distance_traveled + last_op'.distance
          /\ (last_op'.ret = FALSE) <=> (donkey'.current_age >= donkey.death_age)
          /\ donkey'.health_state =
                 IF last_op'.ret THEN donkey.health_state ELSE "Muerto"
          /\ donkey'.energy = donkey.energy
          /\ donkey'.grass_kg = donkey.grass_kg
          /\ donkey' = [donkey EXCEPT
                           !.current_age = donkey'.current_age,
                           !.total_distance_traveled = donkey'.total_distance_traveled,
                           !.health_state = donkey'.health_state]]_vars

\* a travel that brought the age to death_age exactly, and failed
C17_DiedAtDeathAge ==
    /\ last_op.op = "travel"
    /\ last_op.ret = FALSE
    /\ donkey.current_age = donkey.death_age
    /\ donkey.health_state = "Muerto"

ResearchCost(op) == RMul(op.time_spent, op.energy_cost_per_time)

\* C19: a research whose cost leaves no energy sets the energy to 0, marks
\* the donkey dead and returns false; any other research leaves the energy
\* minus the cost, a tier that is not dead, a donkey that was alive alive,
\* and returns true.
C19_ResearchOutcome ==
    [][last_op'.op = "do_research"
       => IF RLe(RSub(donkey.energy, ResearchCost(last_op')), R(0))
          THEN /\ donkey'.energy = R(0)
               /\ donkey'.health_state = "Muerto"
               /\ ~is_alive(donkey')
               /\ last_op'.ret = FALSE
          ELSE /\ donkey'.energy = RSub(donkey.energy, ResearchCost(last_op'))
               /\ donkey'.health_state # "Muerto"
               /\ is_alive(donkey) => is_alive(donkey')
               /\ last_op'.ret = TRUE]_vars

\* a research of cost 20 that left no energy: the energy is 0, the donkey dead
C19_SpentEverything ==
    /\ last_op.op = "do_research"
    /\ last_op.ret = FALSE
    /\ ResearchCost(last_op) = R(20)
    /\ donkey.energy = R(0)
    /\ donkey.health_state = "Muerto"
    /\ donkey.current_age < donkey.death_age

---------------------------------------------------------------------------
(* Properties of simulate_star_visit, one visit at a time, checked under   *)
(* SpecVisit.                                                              *)

\* the configured research parameters of a star
ParamsOf(star_id) ==
    IF star_id \in DOMAIN research_config
    THEN research_config[star_id] ELSE DefaultResearchParams

\* the visit in last_op' leaves from a star along an edge, with a live agent
VisitAlongEdge ==
    /\ last_op'.op = "simulate_star_visit"
    /\ last_op'.current # << >>
    /\ get_distance_between(adjacency_list, last_op'.current[1], last_op'.next) # << >>
    /\ is_alive(donkey)

EdgeTravelled ==
    get_distance_between(adjacency_list, last_op'.current[1], last_op'.next)[1]

\* the agent after the meal of a visit
AfterMeal(d, star_id) ==
    IF ~can_eat(d) THEN d
    ELSE LET e == eat(d, IF star_map[star_id].timeToEat # << >>
                         THEN star_map[star_id].timeToEat[1] ELSE R(1), <<R(5)>>)
         IN  IF RLt(R(0), e.ret.kg_eaten)
             THEN record_grass_consumption(e.d, star_id, e.ret.kg_eaten)
             ELSE e.d

\* the agent after the research of a visit, and whether it succeeded
AfterResearch(d, star_id) ==
    LET r == do_research(d, ParamsOf(star_id).research_time,
                         ParamsOf(star_id).energy_cost_per_time)
    IN  [d |-> record_research_time(r.d, star_id, ParamsOf(star_id).research_time),
         ret |-> r.ret]

\* the agent after the portal bonus of a visit
AfterPortal(d, star_id) ==
    IF star_map[star_id].hypergiant # << >> /\ star_map[star_id].hypergiant[1]
    THEN use_hypergiant_portal(d) ELSE d

\* C18: a visit along an edge returns, and its effects are those of travel,
\* record visit, eat, research, portal bonus in this order: a failed travel
\* leaves only the travel's effect, a failed research leaves no portal bonus.
C18_VisitOrder ==
    [][VisitAlongEdge
       => /\ last_op'.exc = ""
          /\ LET t == travel(donkey, EdgeTravelled)
                 n == last_op'.next
             IN  IF ~t.ret
                 THEN /\ donkey' = t.d
                      /\ last_op'.result.eat_result = << >>
                      /\ last_op'.result.research_result = << >>
                      /\ last_op'.result.hypergiant_bonus = << >>
                 ELSE IF n \notin DOMAIN star_map
                 THEN donkey' = visit_star(t.d, n)
                 ELSE LET r == AfterResearch(AfterMeal(visit_star(t.d, n), n), n)
                      IN  IF ~r.ret
                          THEN donkey' = r.d
                          ELSE donkey' = AfterPortal(r.d, n)]_vars

\* C20: a visit along an edge to a star whose configured life_effect is not
\* zero, with a research the agent can pay, returns, and leaves the age at
\* the age after the travel plus life_effect; the visit fails, the agent
\* dead, when that age is at least death_age.
C20_LifeEffectApplied ==
    [][(/\ VisitAlongEdge
        /\ last_op'.next \in DOMAIN star_map
        /\ ParamsOf(last_op'.next).life_effect # R(0)
        /\ travel(donkey, EdgeTravelled).ret
        /\ AfterResearch(AfterMeal(visit_star(travel(donkey, EdgeTravelled).d,
                                              last_op'.next),
                                   last_op'.next),
                         last_op'.next).ret)
       => /\ last_op'.exc = ""
          /\ R(donkey'.current_age) =
                 RAdd(R(donkey.current_age + EdgeTravelled),
                      ParamsOf(last_op'.next).life_effect)
          /\ donkey'.current_age >= donkey.death_age =>
                 /\ ~last_op'.result.success
                 /\ ~is_alive(donkey')]_vars

---------------------------------------------------------------------------
(* Properties of the meal of a visit, eat(timeToEat, 5), checked under     *)
(* SpecDonkey.                                                             *)

MaxEatTime == R(5)

\* C21: an eat with the visit's time limit of 5, by an agent with energy
\* below 50 and food, returns, and eats the smallest of the kilograms needed
\* to reach 100 at the tier's rate, the food stock and 5 / time per kg: the
\* time spent is at most 5, the stock stays non-negative, the new energy is
\* min(100, energy + kg * rate).  Any other eat returns zeros and changes
\* nothing.
C21_MealAmount ==
    [][(last_op'.op = "eat" /\ last_op'.max_time_available = <<MaxEatTime>>)
       => IF RLt(donkey.energy, R(50)) /\ RLt(R(0), donkey.grass_kg)
          THEN /\ last_op'.exc = ""
               /\ last_op'.ret.kg_eaten =
                      RMin(RMin(RDiv(RSub(R(100), donkey.energy),
                                     R(energy_per_kg(donkey.health_state))),
                                donkey.grass_kg),
                           RDiv(MaxEatTime, last_op'.star_time_to_eat))
               /\ last_op'.ret.time_spent =
                      RMul(last_op'.ret.kg_eaten, last_op'.star_time_to_eat)
               /\ RLe(last_op'.ret.time_spent, MaxEatTime)
               /\ donkey'.grass_kg = RSub(donkey.grass_kg, last_op'.ret.kg_eaten)
               /\ RLe(R(0), donkey'.grass_kg)
               /\ donkey'.energy =
                      RMin(R(100),
                           RAdd(donkey.energy,
                                RMul(last_op'.ret.kg_eaten,
                                     R(energy_per_kg(donkey.health_state)))))
               /\ donkey' = [donkey EXCEPT !.energy = donkey'.energy,
                                           !.grass_kg = donkey'.grass_kg]
          ELSE /\ last_op'.exc = ""
               /\ last_op'.ret = EatNothing
               /\ donkey' = donkey]_vars

---------------------------------------------------------------------------
(* Properties of the queue of calculate_optimal_route, checked under       *)
(* SpecSearch.                                                             *)

\* C22: a call of calculate_optimal_route with a start star that is present
\* returns, and every entry it popped had at least as many stars as each
\* entry that was in the queue with it, and, with as many stars, at most its
\* cumulative energy cost.
C22_QueueOrder ==
    (orf_last.called /\ StartPresent) =>
        /\ orf_last.exc = ""
        /\ \A i \in DOMAIN orf_last.expanded :
              \A y \in orf_last.expanded[i].rest :
                 /\ y.num_visited <= orf_last.expanded[i].num_visited
                 /\ y.num_visited = orf_last.expanded[i].num_visited =>
                       RLe(orf_last.expanded[i].energy_spent, y.energy_spent)

\* no two of the states pushed in a search have the same (star, count): the
\* states pushed are those popped and those still queued
OnePerKey(popped, queued) ==
    /\ \A i \in DOMAIN popped, j \in DOMAIN popped :
          (popped[i].current_star = popped[j].current_star
           /\ Len(popped[i].path) = Len(popped[j].path)) => i = j
    /\ \A x \in queued, y \in queued :
          (x.current_star = y.current_star /\ Len(x.path) = Len(y.path)) => x = y
    /\ \A i \in DOMAIN popped, y \in queued :
          ~(popped[i].current_star = y.current_star
            /\ Len(popped[i].path) = Len(y.path))

\* the entries of dijkstra_max_exploration, with the route named path
MeSeen(x) == [current_star |-> x.current_star, path |-> x.route]

\* C23: a search called with a start star that is present returns, and it
\* pushed at most one state for each pair (star, number of stars visited).
C23_OneStatePerKey ==
    /\ (orf_last.called /\ StartPresent) =>
          /\ orf_last.exc = ""
          /\ OnePerKey(orf_last.expanded, orf_last.queue)
    /\ (me_last.called /\ StartPresent) =>
          /\ me_last.exc = ""
          /\ OnePerKey([i \in DOMAIN me_last.expanded |-> MeSeen(me_last.expanded[i])],
                       {MeSeen(x) : x \in me_last.heap})

\* C24: called with a start star that is present, dijkstra_max_exploration
\* returns, with its heap empty and every simple path from the start that
\* keeps the age below death_age expanded.
C24_ExplorationExhaustive ==
    (me_last.called /\ StartPresent) =>
        /\ me_last.exc = ""
        /\ me_last.heap = {}
        /\ \A p \in SurvivablePaths :
              \E i \in DOMAIN me_last.expanded : me_last.expanded[i].route = p

---------------------------------------------------------------------------
(* Properties of the outcome of a visit, checked under SpecVisit.          *)

\* the star is flagged hypergiant in the star map
FlaggedPortal(star_id) ==
    star_map[star_id].hypergiant # << >> /\ star_map[star_id].hypergiant[1]

\* C26: a visit along an edge that the agent survives, with a research it
\* can pay, returns, and when it succeeded its outcome has a hypergiant_bonus
\* that is not None exactly when the star visited is flagged hypergiant.
C26_PortalInfo ==
    [][(/\ VisitAlongEdge
        /\ last_op'.next \in DOMAIN star_map
        /\ travel(donkey, EdgeTravelled).ret
        /\ AfterResearch(AfterMeal(visit_star(travel(donkey, EdgeTravelled).d,
                                              last_op'.next),
                                   last_op'.next),
                         last_op'.next).ret)
       => /\ last_op'.exc = ""
          /\ last_op'.result.success =>
                (last_op'.result.hypergiant_bonus # << >>
                 <=> FlaggedPortal(last_op'.next))]_vars

---------------------------------------------------------------------------
(* Properties of the results of the searches, checked under SpecSearch.    *)

\* every two consecutive stars of the route are joined by an edge of the
\* graph that is not blocked
OverOpenEdges(route) ==
    \A k \in 1..(Len(route) - 1) : OpenEdge(route[k], route[k + 1]) # << >>

\* C27: a search called with a start star that is present returns a route,
\* and every two consecutive stars of it are joined by an edge that exists
\* and is not blocked.
C27_RouteOverOpenEdges ==
    /\ (me_last.called /\ StartPresent) =>
          me_last.exc = "" /\ OverOpenEdges(me_last.result.route)
    /\ (orf_last.called /\ StartPresent) =>
          orf_last.exc = "" /\ OverOpenEdges(orf_last.result.route)

\* C28: calculate_optimal_route called with a start star that is present
\* returns a successful result whose route begins with the start, whose
\* total_stars_visited is the length of the route, and whose simulation_steps
\* are one per star after the first, the i-th with star_id route[i+1].
C28_ResultConsistent ==
    (orf_last.called /\ StartPresent) =>
        /\ orf_last.exc = ""
        /\ orf_last.result.success
        /\ orf_last.result.route[1] = start_star_id
        /\ orf_last.result.total_stars_visited = Len(orf_last.result.route)
        /\ Len(orf_last.result.simulation_steps) = Len(orf_last.result.route) - 1
        /\ \A i \in DOMAIN orf_last.result.simulation_steps :
              orf_last.result.simulation_steps[i].star_id = orf_last.result.route[i + 1]

\* C29: calculate_optimal_route called with a start star that is present
\* returns, and the cumulative energy cost of every state it expanded, and
\* of its result, is the energy of the caller's agent minus the energy of
\* that state's agent.
C29_CostIsEnergyDrop ==
    (orf_last.called /\ StartPresent) =>
        /\ orf_last.exc = ""
        /\ \A i \in DOMAIN orf_last.expanded :
              orf_last.expanded[i].energy_spent =
                  RSub(donkey.energy, orf_last.expanded[i].donkey.energy)
        /\ orf_last.result.total_energy_spent =
               RSub(donkey.energy, orf_last.result.final_donkey_state[1].energy)

---------------------------------------------------------------------------
(* Properties of the replay, checked under SpecReplay.                     *)

\* C30: after the user stopped the replay or paused auto-play, and until
\* they press Start, Next or Auto, a callback of _next_step that runs leaves
\* current_step_index alone and renders nothing; and never are two callbacks
\* scheduled at once.
C30_HaltedReplayStays ==
    [][/\ (last_op'.op = "after" /\ last_press \in {"stop", "pause"})
          => /\ sim'.current_step_index = sim.current_step_index
             /\ ~last_op'.rendered
       /\ after_queue' <= 1]_vars


\* the addresses of the list and dicts of the agent at address a
ListsOf(st, a) == {st[a].visited_stars, st[a].grass_consumed, st[a].research_time}

\* the agents the call holds: the caller's, the popped entry's, the queued ones
AgentsHeld(s) ==
    {s.caller} \cup {e.donkey : e \in s.queue}
               \cup (IF s.cur = << >> THEN {} ELSE {s.cur[1].donkey})

\* no two queue entries hold the same agent, no two agents held share a list
\* or a dict, and none shares one with the best result's report
Unshared(st, s) ==
    /\ \A e1 \in s.queue, e2 \in s.queue : e1 # e2 => e1.donkey # e2.donkey
    /\ \A a \in AgentsHeld(s), b \in AgentsHeld(s) :
          a # b => ListsOf(st, a) \cap ListsOf(st, b) = {}
    /\ \A a \in AgentsHeld(s) :
          ListsOf(st, a) \cap {s.best.donkey_state.visited_stars,
                               s.best.donkey_state.grass_consumed,
                               s.best.donkey_state.research_time} = {}

==========================================================================
